---- MODULE Spec2Model ----
(***************************************************************************)
(* Model of the burisim visualisation layer:                               *)
(*   - TerminalView (src/burisim/ui/display.py): the inbound byte queue    *)
(*     (a QBuffer guarded by a threading.Lock), its drain into the pyte    *)
(*     stream, and the outbound keystroke path;                            *)
(*   - HD44780View (src/burisim/ui/display.py): attach/detach of the LCD   *)
(*     peripheral, the change notification, the DDRAM row addressing and   *)
(*     the CHAR_ROM font;                                                  *)
(*   - MemoryView (src/burisim/__init__.py): the page setter and the hex   *)
(*     dump that _refresh_mem sets on the text edit.                       *)
(* Each component has its own specification; the variables of the other    *)
(* components stay unchanged in it.                                        *)
(***************************************************************************)
EXTENDS Integers, Sequences, FiniteSets, TLC

\* ------------------------------------------------------------------------
\* Bounds of the model
\* ------------------------------------------------------------------------
\* number of receiveByte calls the machine thread makes
MaxRecv == 3
\* inbound byte values are ByteBase .. ByteBase + MaxByteIdx
MaxByteIdx == 1
\* number of key release events
MaxKeys == 3
\* longest text of one key event, in characters
MaxTextLen == 2
\* number of DDRAM writes the machine makes
MaxLcdWrites == 2
\* number of memory writes the machine makes
MaxMemWrites == 1

VARIABLES
    \* ---- TerminalView: inbound queue --------------------------------
    lock,            \* owner of _input_buffer_lock: "none", "machine", "ui"
    mPc,             \* machine thread's position inside receiveByte
    mByte,           \* the argument b of the receiveByte call in progress
    uPc,             \* UI thread's position inside _q_emitSignals/_have_input
    bs,              \* local bs of _have_input
    buf,             \* QBuffer: the underlying QByteArray
    ioIndex,         \* QBuffer: write position
    isOpen,          \* QBuffer: open for writing
    signalsEmitted,  \* QBuffer: a _q_emitSignals call is queued or running
    emitQueued,      \* queued _q_emitSignals invocations in the UI event queue
    fed,             \* every byte handed to stream.feed so far, in order
    lastFeed,        \* the batch of the most recent stream.feed call
    svUpdate,        \* ScreenView: an update() is pending
    cachedSize,      \* ScreenView._cached_screen_size
    passed,          \* history: bytes passed to receiveByte, in call order
    sinceDrain,      \* history: bytes enqueued since the previous drain
    drainedOf,       \* history: sinceDrain as it was when bs was taken
    \* ---- TerminalView: outbound keystrokes ---------------------------
    transmitted,     \* values emitted on the transmitByte signal, in order
    keyEvents,       \* history: e.text() of every key release event
    \* ---- HD44780View ------------------------------------------------
    display,         \* HD44780View._display: a peripheral or "None"
    connected,       \* peripherals whose update signal is connected to
                     \* _display_update
    ddram,           \* the DDRAM of each peripheral (owned by the machine)
    notifyQueued,    \* queued _display_update invocations
    updateReq,       \* HD44780View: an update() is pending
    painted,         \* the character rows the last paintEvent drew, top to
                     \* bottom, each the byte values whose glyphs were drawn
    setterErr,       \* exception raised by the last display setter call
    paintSrc,        \* history: the DDRAM the last paintEvent read
    owed,            \* history: the attached peripheral has raised a change
                     \* notification and update() was not called since
    detached,        \* history: the last setter call was a detach of an
                     \* attached peripheral
    lcdWrites,       \* history: number of DDRAM writes made
    \* ---- MemoryView -------------------------------------------------
    page,            \* MemoryView._page
    simulator,       \* MemoryView.simulator: "None" or "sim"
    spin,            \* value of the page spin box
    memory,          \* the machine's memory: the cells written so far (every
                     \* other cell holds 0)
    te,              \* the HTML last set on the text edit
    shown            \* history: the page and the memory the last _refresh_mem
                     \* that rendered read, as a one-element sequence; empty
                     \* before the first one

termVars == <<lock, mPc, mByte, uPc, bs, buf, ioIndex, isOpen, signalsEmitted,
              emitQueued, fed, lastFeed, svUpdate, cachedSize, passed,
              sinceDrain, drainedOf>>

keyVars == <<transmitted, keyEvents>>

lcdVars == <<display, connected, ddram, notifyQueued, updateReq, painted,
             setterErr, paintSrc, owed, detached, lcdWrites>>

memVars == <<page, simulator, spin, memory, te, shown>>

vars == <<termVars, keyVars, lcdVars, memVars>>

ByteBase == 65
Bytes == ByteBase .. (ByteBase + MaxByteIdx)

\* pyte.DiffScreen(80, 24): screen.size is (lines, columns)
ScreenSize == <<24, 80>>

\* ------------------------------------------------------------------------
\* QBuffer, as TerminalView uses it
\* ------------------------------------------------------------------------
\* QIODevice::putChar -> QBuffer::writeData: write one byte at ioIndex,
\* growing the array when the position is at its end.  A device that is not
\* open for writing refuses the byte.
WriteAt(s, i, b) ==
    IF i < Len(s) THEN [s EXCEPT ![i + 1] = b] ELSE Append(s, b)

\* QBuffer::setData: ignored while the device is open
SetDataResult(s, open, new) == IF open THEN s ELSE new

\* ------------------------------------------------------------------------
\* TerminalView.receiveByte (machine thread)
\* ------------------------------------------------------------------------
ReceiveByteCall(b) ==
    /\ mPc = "idle"
    /\ Len(passed) < MaxRecv
    /\ mPc' = "wait"
    /\ mByte' = b
    /\ passed' = Append(passed, b)
    /\ UNCHANGED <<lock, uPc, bs, buf, ioIndex, isOpen, signalsEmitted,
                   emitQueued, fed, lastFeed, svUpdate, cachedSize,
                   sinceDrain, drainedOf>>

\* with self._input_buffer_lock: (entry)
ReceiveByteAcquire ==
    /\ mPc = "wait"
    /\ lock = "none"
    /\ lock' = "machine"
    /\ mPc' = "put"
    /\ UNCHANGED <<mByte, uPc, bs, buf, ioIndex, isOpen, signalsEmitted,
                   emitQueued, fed, lastFeed, svUpdate, cachedSize, passed,
                   sinceDrain, drainedOf>>

\* self._input_buffer.putChar(b)
ReceiveBytePutChar ==
    /\ mPc = "put"
    /\ mPc' = "exit"
    /\ IF isOpen
         THEN /\ buf' = WriteAt(buf, ioIndex, mByte)
              /\ ioIndex' = ioIndex + 1
              /\ sinceDrain' = Append(sinceDrain, mByte)
              /\ IF ~signalsEmitted
                   THEN /\ signalsEmitted' = TRUE
                        /\ emitQueued' = emitQueued + 1
                   ELSE UNCHANGED <<signalsEmitted, emitQueued>>
         ELSE UNCHANGED <<buf, ioIndex, sinceDrain, signalsEmitted, emitQueued>>
    /\ UNCHANGED <<lock, mByte, uPc, bs, isOpen, fed, lastFeed, svUpdate,
                   cachedSize, passed, drainedOf>>

\* with self._input_buffer_lock: (exit)
ReceiveByteRelease ==
    /\ mPc = "exit"
    /\ lock' = "none"
    /\ mPc' = "idle"
    /\ UNCHANGED <<mByte, uPc, bs, buf, ioIndex, isOpen, signalsEmitted,
                   emitQueued, fed, lastFeed, svUpdate, cachedSize, passed,
                   sinceDrain, drainedOf>>

\* ------------------------------------------------------------------------
\* TerminalView._have_input (UI thread), called by the bytesWritten signal
\* that the queued QBuffer::_q_emitSignals emits
\* ------------------------------------------------------------------------
EmitSignals ==
    /\ uPc = "idle"
    /\ emitQueued > 0
    /\ emitQueued' = emitQueued - 1
    /\ uPc' = "enter"
    /\ UNCHANGED <<lock, mPc, mByte, bs, buf, ioIndex, isOpen, signalsEmitted,
                   fed, lastFeed, svUpdate, cachedSize, passed, sinceDrain,
                   drainedOf>>

\* the drain entered without taking the lock
HaveInputAcquireNoLock ==
    /\ uPc = "enter"
    /\ lock' = lock
    /\ uPc' = "close"
    /\ UNCHANGED <<mPc, mByte, bs, buf, ioIndex, isOpen, signalsEmitted,
                   emitQueued, fed, lastFeed, svUpdate, cachedSize, passed,
                   sinceDrain, drainedOf>>

\* with self._input_buffer_lock: (entry)
HaveInputAcquire ==
    /\ uPc = "enter"
    /\ lock = "none"
    /\ lock' = "ui"
    /\ uPc' = "close"
    /\ UNCHANGED <<mPc, mByte, bs, buf, ioIndex, isOpen, signalsEmitted,
                   emitQueued, fed, lastFeed, svUpdate, cachedSize, passed,
                   sinceDrain, drainedOf>>

\* the drain with the close() call left out
HaveInputCloseSkipped ==
    /\ uPc = "close"
    /\ uPc' = "data"
    /\ UNCHANGED <<lock, mPc, mByte, bs, buf, ioIndex, isOpen, signalsEmitted,
                   emitQueued, fed, lastFeed, svUpdate, cachedSize, passed,
                   sinceDrain, drainedOf>>

\* self._input_buffer.close()
HaveInputClose ==
    /\ uPc = "close"
    /\ isOpen' = FALSE
    /\ uPc' = "data"
    /\ UNCHANGED <<lock, mPc, mByte, bs, buf, ioIndex, signalsEmitted,
                   emitQueued, fed, lastFeed, svUpdate, cachedSize, passed,
                   sinceDrain, drainedOf>>

\* bs = b''.join(self._input_buffer.data())
HaveInputData ==
    /\ uPc = "data"
    /\ bs' = buf
    /\ drainedOf' = sinceDrain
    /\ sinceDrain' = << >>
    /\ uPc' = "setData"
    /\ UNCHANGED <<lock, mPc, mByte, buf, ioIndex, isOpen, signalsEmitted,
                   emitQueued, fed, lastFeed, svUpdate, cachedSize, passed>>

\* self._input_buffer.setData(b'')
HaveInputSetData ==
    /\ uPc = "setData"
    /\ buf' = SetDataResult(buf, isOpen, << >>)
    /\ ioIndex' = IF isOpen THEN ioIndex ELSE 0
    /\ uPc' = "open"
    /\ UNCHANGED <<lock, mPc, mByte, bs, isOpen, signalsEmitted, emitQueued,
                   fed, lastFeed, svUpdate, cachedSize, passed, sinceDrain,
                   drainedOf>>

\* self._input_buffer.open(WriteOnly | Unbuffered): no Append, no Truncate
HaveInputOpen ==
    /\ uPc = "open"
    /\ isOpen' = TRUE
    /\ ioIndex' = 0
    /\ uPc' = "exit"
    /\ UNCHANGED <<lock, mPc, mByte, bs, buf, signalsEmitted, emitQueued, fed,
                   lastFeed, svUpdate, cachedSize, passed, sinceDrain,
                   drainedOf>>

\* the with block extended over feed and contents_changed
HaveInputReleaseKeepsLock ==
    /\ uPc = "exit"
    /\ uPc' = "feed"
    /\ UNCHANGED <<lock, mPc, mByte, bs, buf, ioIndex, isOpen, signalsEmitted,
                   emitQueued, fed, lastFeed, svUpdate, cachedSize, passed,
                   sinceDrain, drainedOf>>

\* with self._input_buffer_lock: (exit)
HaveInputRelease ==
    /\ uPc = "exit"
    /\ lock' = "none"
    /\ uPc' = "feed"
    /\ UNCHANGED <<mPc, mByte, bs, buf, ioIndex, isOpen, signalsEmitted,
                   emitQueued, fed, lastFeed, svUpdate, cachedSize, passed,
                   sinceDrain, drainedOf>>

\* self.stream.feed(bs)
HaveInputFeed ==
    /\ uPc = "feed"
    /\ fed' = fed \o bs
    /\ lastFeed' = bs
    /\ uPc' = "changed"
    /\ UNCHANGED <<lock, mPc, mByte, bs, buf, ioIndex, isOpen, signalsEmitted,
                   emitQueued, svUpdate, cachedSize, passed, sinceDrain,
                   drainedOf>>

\* self._screen_view.contents_changed()
HaveInputContentsChanged ==
    /\ uPc = "changed"
    /\ svUpdate' = TRUE
    /\ cachedSize' = IF cachedSize # ScreenSize THEN ScreenSize ELSE cachedSize
    /\ uPc' = "emitted"
    /\ UNCHANGED <<lock, mPc, mByte, bs, buf, ioIndex, isOpen, signalsEmitted,
                   emitQueued, fed, lastFeed, passed, sinceDrain, drainedOf>>

\* back in _q_emitSignals: signalsEmitted = false
EmitSignalsDone ==
    /\ uPc = "emitted"
    /\ signalsEmitted' = FALSE
    /\ uPc' = "idle"
    /\ UNCHANGED <<lock, mPc, mByte, bs, buf, ioIndex, isOpen, emitQueued, fed,
                   lastFeed, svUpdate, cachedSize, passed, sinceDrain,
                   drainedOf>>

\* ScreenView.paintEvent: Qt delivers the pending update() between events
ScreenPaint ==
    /\ uPc = "idle"
    /\ svUpdate
    /\ svUpdate' = FALSE
    /\ UNCHANGED <<lock, mPc, mByte, uPc, bs, buf, ioIndex, isOpen,
                   signalsEmitted, emitQueued, fed, lastFeed, cachedSize,
                   passed, sinceDrain, drainedOf>>

\* ------------------------------------------------------------------------
\* TerminalView.keyReleaseEvent (UI thread)
\* ------------------------------------------------------------------------
\* the characters a key event's text is made of, and ord() of each
Chars == {"a", "e-acute"}
Ord(c) == CASE c = "a" -> 97
            [] c = "e-acute" -> 233

\* texts of up to MaxTextLen characters; the empty text is that of a
\* modifier key
Texts == UNION {[1..n -> Chars] : n \in 0..MaxTextLen}

\* for c in t: self.transmitByte.emit(ord(c))
RECURSIVE EmitEach(_, _)
EmitEach(t, out) ==
    IF t = << >> THEN out ELSE EmitEach(Tail(t), Append(out, Ord(Head(t))))

\* only the first character of the text is emitted
KeyReleaseEventFirstOnly(t) ==
    /\ Len(keyEvents) < MaxKeys
    /\ keyEvents' = Append(keyEvents, t)
    /\ transmitted' = IF t = << >> THEN transmitted
                                    ELSE Append(transmitted, Ord(t[1]))

KeyReleaseEvent(t) ==
    /\ Len(keyEvents) < MaxKeys
    /\ keyEvents' = Append(keyEvents, t)
    /\ IF t = << >>
         THEN \* QWidget.keyReleaseEvent ignores the event
              transmitted' = transmitted
         ELSE transmitted' = EmitEach(t, transmitted)

KeyInit ==
    /\ transmitted = << >>
    /\ keyEvents = << >>

notKey == <<termVars, lcdVars, memVars>>

KeyNext == (\E t \in Texts : KeyReleaseEvent(t)) /\ UNCHANGED notKey

\* ------------------------------------------------------------------------
\* HD44780View: the font
\* ------------------------------------------------------------------------
CHAR_ROM == <<
    <<0,0,0,0,0,0,0>>, <<0,0,0,0,0,0,0>>, <<0,0,0,0,0,0,0>>, <<0,0,0,0,0,0,0>>,
    <<0,0,0,0,0,0,0>>, <<0,0,0,0,0,0,0>>, <<0,0,0,0,0,0,0>>, <<0,0,0,0,0,0,0>>,
    <<0,0,0,0,0,0,0>>, <<0,0,0,0,0,0,0>>, <<0,0,0,0,0,0,0>>, <<0,0,0,0,0,0,0>>,
    <<0,0,0,0,0,0,0>>, <<0,0,0,0,0,0,0>>, <<0,0,0,0,0,0,0>>, <<0,0,0,0,0,0,0>>,
    <<0,0,0,0,0,0,0>>, <<0,0,0,0,0,0,0>>, <<0,0,0,0,0,0,0>>, <<0,0,0,0,0,0,0>>,
    <<0,0,0,0,0,0,0>>, <<0,0,0,0,0,0,0>>, <<0,0,0,0,0,0,0>>, <<0,0,0,0,0,0,0>>,
    <<0,0,0,0,0,0,0>>, <<0,0,0,0,0,0,0>>, <<0,0,0,0,0,0,0>>, <<0,0,0,0,0,0,0>>,
    <<0,0,0,0,0,0,0>>, <<0,0,0,0,0,0,0>>, <<0,0,0,0,0,0,0>>, <<0,0,0,0,0,0,0>>,
    <<0,0,0,0,0,0,0>>, <<4,4,4,4,4,0,4>>, <<10,10,10,0,0,0,0>>, <<10,10,31,10,31,10,10>>,
    <<4,15,20,14,5,30,4>>, <<24,25,2,4,8,19,3>>, <<12,18,20,8,21,18,13>>, <<12,4,8,0,0,0,0>>,
    <<2,4,8,8,8,4,2>>, <<8,4,2,2,2,4,8>>, <<0,4,21,14,21,4,0>>, <<0,4,4,31,4,4,0>>,
    <<0,0,0,0,12,4,8>>, <<0,0,0,31,0,0,0>>, <<0,0,0,0,0,12,12>>, <<0,1,2,4,8,16,0>>,
    <<14,17,19,21,25,17,14>>, <<4,12,4,4,4,4,14>>, <<14,17,1,2,4,8,31>>, <<31,2,4,2,1,17,14>>,
    <<2,6,10,18,31,2,2>>, <<31,16,30,1,1,17,14>>, <<6,8,16,30,17,17,14>>, <<31,1,2,4,8,8,8>>,
    <<14,17,17,14,17,17,14>>, <<14,17,17,15,1,2,12>>, <<0,12,12,0,12,12,0>>, <<0,12,12,0,12,4,8>>,
    <<2,4,8,16,8,4,2>>, <<0,0,31,0,31,0,0>>, <<16,8,4,2,4,8,16>>, <<14,17,1,2,4,0,4>>,
    <<14,17,1,13,21,21,14>>, <<14,17,17,17,31,17,17>>, <<30,17,17,30,17,17,30>>, <<14,17,16,16,16,17,14>>,
    <<30,17,17,17,17,17,30>>, <<31,16,16,30,16,16,31>>, <<31,16,16,30,16,16,16>>, <<14,17,16,23,17,17,15>>,
    <<17,17,17,31,17,17,17>>, <<14,4,4,4,4,4,14>>, <<7,2,2,2,2,18,12>>, <<17,18,20,24,20,18,17>>,
    <<16,16,16,16,16,16,31>>, <<17,27,21,21,17,17,17>>, <<17,17,25,21,19,17,17>>, <<14,17,17,17,17,17,14>>,
    <<30,17,17,30,16,16,16>>, <<14,17,17,17,21,18,13>>, <<30,17,17,30,20,18,17>>, <<15,16,16,14,1,1,30>>,
    <<31,4,4,4,4,4,4>>, <<17,17,17,17,17,17,14>>, <<17,17,17,17,17,10,4>>, <<17,17,17,21,21,21,10>>,
    <<17,17,10,4,10,17,17>>, <<17,17,17,10,4,4,4>>, <<31,1,2,4,8,16,31>>, <<14,8,8,8,8,8,14>>,
    <<17,10,31,4,31,4,4>>, <<14,2,2,2,2,2,14>>, <<4,10,17,0,0,0,0>>, <<0,0,0,0,0,0,31>>,
    <<8,4,2,0,0,0,0>>, <<0,0,14,1,15,17,15>>, <<16,16,22,25,17,17,30>>, <<0,0,14,16,16,17,14>>,
    <<1,1,13,19,17,17,15>>, <<0,0,14,17,31,16,14>>, <<6,9,8,28,8,8,8>>, <<0,0,15,17,15,1,14>>,
    <<16,16,22,25,17,17,17>>, <<4,0,12,4,4,4,14>>, <<2,6,2,2,2,18,12>>, <<16,16,18,20,24,20,18>>,
    <<12,4,4,4,4,4,14>>, <<0,0,26,21,21,17,17>>, <<0,0,22,25,17,17,17>>, <<0,0,14,17,17,17,14>>,
    <<0,0,30,17,30,16,16>>, <<0,0,13,19,15,1,1>>, <<0,0,22,25,16,16,16>>, <<0,0,15,16,14,1,30>>,
    <<8,8,28,8,8,9,6>>, <<0,0,17,17,17,19,13>>, <<0,0,17,17,17,10,4>>, <<0,0,17,17,21,21,10>>,
    <<0,0,17,10,4,10,17>>, <<0,0,17,17,15,1,14>>, <<0,0,31,2,4,8,31>>, <<2,4,4,8,4,4,2>>,
    <<4,4,4,4,4,4,4>>, <<8,4,4,2,4,4,8>>, <<0,4,2,31,2,4,0>>, <<0,4,8,31,8,4,0>>,
    <<0,0,0,0,0,0,0>>, <<0,0,0,0,0,0,0>>, <<0,0,0,0,0,0,0>>, <<0,0,0,0,0,0,0>>,
    <<0,0,0,0,0,0,0>>, <<0,0,0,0,0,0,0>>, <<0,0,0,0,0,0,0>>, <<0,0,0,0,0,0,0>>,
    <<0,0,0,0,0,0,0>>, <<0,0,0,0,0,0,0>>, <<0,0,0,0,0,0,0>>, <<0,0,0,0,0,0,0>>,
    <<0,0,0,0,0,0,0>>, <<0,0,0,0,0,0,0>>, <<0,0,0,0,0,0,0>>, <<0,0,0,0,0,0,0>>,
    <<0,0,0,0,0,0,0>>, <<0,0,0,0,0,0,0>>, <<0,0,0,0,0,0,0>>, <<0,0,0,0,0,0,0>>,
    <<0,0,0,0,0,0,0>>, <<0,0,0,0,0,0,0>>, <<0,0,0,0,0,0,0>>, <<0,0,0,0,0,0,0>>,
    <<0,0,0,0,0,0,0>>, <<0,0,0,0,0,0,0>>, <<0,0,0,0,0,0,0>>, <<0,0,0,0,0,0,0>>,
    <<0,0,0,0,0,0,0>>, <<0,0,0,0,0,0,0>>, <<0,0,0,0,0,0,0>>, <<0,0,0,0,0,0,0>>,
    <<0,0,0,0,0,0,0>>, <<0,0,0,0,28,20,28>>, <<7,4,4,4,0,0,0>>, <<0,0,0,4,4,4,28>>,
    <<0,0,0,0,16,8,4>>, <<0,0,0,12,12,0,0>>, <<0,31,1,31,1,2,4>>, <<0,0,31,1,6,4,8>>,
    <<0,0,2,4,12,20,4>>, <<0,0,4,31,17,1,6>>, <<0,0,0,31,4,4,31>>, <<0,0,2,31,6,10,18>>,
    <<0,0,8,31,9,10,8>>, <<0,0,0,14,2,2,31>>, <<0,0,30,2,30,2,30>>, <<0,0,0,21,21,1,6>>,
    <<0,0,0,0,31,0,0>>, <<31,1,5,6,4,4,8>>, <<1,2,4,12,20,4,4>>, <<4,31,17,17,1,2,4>>,
    <<0,0,31,4,4,4,31>>, <<2,31,2,6,10,18,2>>, <<8,31,9,9,9,9,18>>, <<4,31,4,31,4,4,4>>,
    <<0,15,9,17,1,2,12>>, <<8,15,18,2,2,2,4>>, <<0,31,1,1,1,1,31>>, <<10,31,10,10,2,4,8>>,
    <<0,24,1,25,1,2,28>>, <<0,31,1,2,4,10,17>>, <<8,31,9,10,8,8,7>>, <<0,17,17,9,1,2,12>>,
    <<0,15,9,21,3,2,12>>, <<2,28,4,31,4,4,8>>, <<0,21,21,1,1,2,4>>, <<14,0,31,4,4,4,8>>,
    <<8,8,8,12,10,8,8>>, <<4,4,31,4,4,8,16>>, <<0,14,0,0,0,0,31>>, <<0,31,1,10,4,10,16>>,
    <<4,31,2,4,14,21,4>>, <<2,2,2,2,2,4,8>>, <<0,4,2,17,17,17,17>>, <<16,16,31,16,16,16,15>>,
    <<0,31,1,1,1,2,12>>, <<0,8,20,2,1,1,0>>, <<4,31,4,4,21,21,4>>, <<0,31,1,1,10,4,2>>,
    <<0,14,0,14,0,14,1>>, <<0,4,8,16,17,31,1>>, <<0,1,1,10,4,10,16>>, <<0,31,8,31,8,8,7>>,
    <<8,8,31,9,10,8,8>>, <<0,14,2,2,2,2,31>>, <<0,31,1,31,1,1,31>>, <<14,0,31,1,1,2,4>>,
    <<18,18,18,18,2,4,8>>, <<0,4,20,20,21,21,22>>, <<0,16,16,17,18,20,24>>, <<0,31,17,17,17,17,31>>,
    <<0,31,17,17,1,2,4>>, <<0,24,0,1,1,2,28>>, <<4,18,8,0,0,0,0>>, <<28,20,28,0,0,0,0>>,
    <<0,0,9,21,18,18,13>>, <<10,0,14,1,15,17,15>>, <<0,14,17,30,17,30,16>>, <<0,0,14,16,12,17,14>>,
    <<0,17,17,17,19,29,16>>, <<0,0,15,20,18,17,14>>, <<0,6,9,17,17,30,16>>, <<0,15,17,17,17,15,1>>,
    <<0,0,7,4,4,20,8>>, <<2,26,2,0,0,0,0>>, <<2,0,6,2,2,2,2>>, <<0,20,8,20,0,0,0>>,
    <<4,14,20,21,14,4,0>>, <<8,8,28,8,28,8,15>>, <<14,0,22,25,17,17,17>>, <<10,0,14,17,17,17,14>>,
    <<0,22,25,17,17,30,16>>, <<0,13,19,17,17,15,1>>, <<14,17,31,17,17,14,0>>, <<0,0,0,0,11,21,26>>,
    <<0,14,17,17,10,27,0>>, <<10,0,17,17,17,19,13>>, <<31,16,8,4,8,16,31>>, <<0,31,10,10,10,19,0>>,
    <<31,0,17,10,4,10,17>>, <<0,17,17,17,17,15,1>>, <<1,30,4,31,4,4,0>>, <<0,31,8,15,9,17,0>>,
    <<0,31,21,31,17,17,0>>, <<0,0,4,0,31,0,4>>, <<0,0,0,0,0,0,0>>, <<31,31,31,31,31,31,31>>
>>

\* r_def & (1 << (4 - c_idx)) != 0, for a row pattern r_def >= 0
BitSet(r_def, c_idx) == (r_def \div (2 ^ (4 - c_idx))) % 2 = 1

\* (list(c) + [0]*8)[:8]
PadRows(c) == SubSeq(c \o [i \in 1..8 |-> 0], 1, 8)

\* render_char with the rows of the table entry only, without the padding
RenderCharNoPad(c) ==
    [r_idx \in 1..Len(c) |->
        [c_idx \in 0..4 |-> IF BitSet(c[r_idx], c_idx) THEN "on" ELSE "off"]]

\* render_char: the image of one glyph, as its rows of five pixel cells,
\* each filled with lcd_on or lcd_off
RenderChar(c) ==
    [r_idx \in 1..Len(PadRows(c)) |->
        [c_idx \in 0..4 |->
            IF BitSet(PadRows(c)[r_idx], c_idx) THEN "on" ELSE "off"]]

\* self._font after __init__: list(render_char(c) for c in CHAR_ROM);
\* font[v + 1] is self._font[v]
font == [i \in 1..Len(CHAR_ROM) |-> RenderChar(CHAR_ROM[i])]

\* ------------------------------------------------------------------------
\* The LCD peripherals of the machine
\* ------------------------------------------------------------------------
Displays == {"lcdA", "lcdB"}
\* length of each peripheral's DDRAM: one that holds every address the view
\* reads, one of the nominal 4 x 20 size
DdramLen == [d \in Displays |-> IF d = "lcdA" THEN 104 ELSE 80]
\* addresses and values the machine writes
WriteAddrs == {0, 20, 64, 84}
LcdVals == {65, 255}

\* the machine writes one DDRAM cell and emits the peripheral's update
\* signal; the signal reaches a connected slot as a queued invocation
LcdWrite(d, a, v) ==
    /\ lcdWrites < MaxLcdWrites
    /\ a < Len(ddram[d])
    /\ ddram' = [ddram EXCEPT ![d][a + 1] = v]
    /\ lcdWrites' = lcdWrites + 1
    /\ IF d \in connected
         THEN /\ notifyQueued' = notifyQueued + 1
              /\ owed' = (owed \/ d = display)
         ELSE UNCHANGED <<notifyQueued, owed>>
    /\ UNCHANGED <<display, connected, updateReq, painted, setterErr,
                   paintSrc, detached>>

\* ------------------------------------------------------------------------
\* HD44780View.display (setter)
\* ------------------------------------------------------------------------
\* if self._display is not None: self._display.update.disconnect(...)
AfterDisconnect == IF display # "None" THEN connected \ {display} ELSE connected

DisplaySet(d) ==
    /\ display' = d
    /\ detached' = (d = "None" /\ display # "None")
    /\ IF d = "None"
         THEN \* self._display.update raises AttributeError on None
              /\ connected' = AfterDisconnect
              /\ setterErr' = "AttributeError"
              /\ UNCHANGED <<updateReq, owed>>
         ELSE /\ connected' = AfterDisconnect \cup {d}
              /\ setterErr' = "none"
              /\ updateReq' = TRUE
              /\ owed' = FALSE
    /\ UNCHANGED <<ddram, notifyQueued, painted, paintSrc, lcdWrites>>

\* ------------------------------------------------------------------------
\* HD44780View._display_update
\* ------------------------------------------------------------------------
\* the slot that never calls update()
DisplayUpdateDropped ==
    /\ notifyQueued > 0
    /\ notifyQueued' = notifyQueued - 1
    /\ UNCHANGED <<display, connected, ddram, updateReq, painted, setterErr,
                   paintSrc, owed, detached, lcdWrites>>

DisplayUpdate ==
    /\ notifyQueued > 0
    /\ notifyQueued' = notifyQueued - 1
    /\ updateReq' = TRUE
    /\ owed' = FALSE
    /\ UNCHANGED <<display, connected, ddram, painted, setterErr, paintSrc,
                   detached, lcdWrites>>

\* ------------------------------------------------------------------------
\* HD44780View.paintEvent
\* ------------------------------------------------------------------------
\* s[lo:hi] of Python for 0 <= lo <= hi: the slice is cut at the end of s
PySlice(s, lo, hi) ==
    IF lo >= Len(s) THEN << >>
    ELSE SubSeq(s, lo + 1, IF hi < Len(s) THEN hi ELSE Len(s))

\* the four paint_row calls, with rows taken in row-major order
GridRowsRowMajor(m) ==
    << PySlice(m, 0, 20), PySlice(m, 20, 40),
       PySlice(m, 40, 60), PySlice(m, 60, 80) >>

\* the four paint_row calls: row r is drawn at y = r * rh
GridRows(m) ==
    << PySlice(m, 0, 20), PySlice(m, 64, 84),
       PySlice(m, 20, 40), PySlice(m, 84, 104) >>

\* Qt calls paintEvent for a pending update() and when the window is exposed
PaintEvent ==
    /\ updateReq' = FALSE
    /\ IF Len(font) = 0 \/ display = "None"
         THEN \* return before the painter is opened: no cell is drawn
              /\ painted' = << >>
              /\ paintSrc' = << >>
         ELSE LET rows == GridRows(ddram[display])
              IN  \* im = self._font[v] for every cell of every row
                  /\ \A r \in 1..4 : \A c \in 1..Len(rows[r]) :
                         rows[r][c] < Len(font)
                  /\ painted' = rows
                  /\ paintSrc' = ddram[display]
    /\ UNCHANGED <<display, connected, ddram, notifyQueued, setterErr, owed,
                   detached, lcdWrites>>

LcdInit ==
    /\ display = "None"
    /\ connected = {}
    /\ ddram = [d \in Displays |-> [i \in 1..DdramLen[d] |-> 32]]
    /\ notifyQueued = 0
    /\ updateReq = FALSE
    /\ painted = << >>
    /\ setterErr = "none"
    /\ paintSrc = << >>
    /\ owed = FALSE
    /\ detached = FALSE
    /\ lcdWrites = 0

notLcd == <<termVars, keyVars, memVars>>

LcdNext ==
    \/ (\E d \in Displays, a \in WriteAddrs, v \in LcdVals : LcdWrite(d, a, v))
          /\ UNCHANGED notLcd
    \/ (\E d \in Displays \cup {"None"} : DisplaySet(d)) /\ UNCHANGED notLcd
    \/ DisplayUpdate /\ UNCHANGED notLcd
    \/ PaintEvent /\ UNCHANGED notLcd

\* ------------------------------------------------------------------------
\* MemoryView
\* ------------------------------------------------------------------------
\* size of the machine's memory: pages 0x00..0xff of 0x100 bytes
MemSize == 65536
\* addresses and values the machine writes
MemAddrs == {512, 519, 65535}
MemVals == {7, 60, 65}
\* m[a] for 0 <= a < MemSize
MemAt(a) == IF a \in DOMAIN memory THEN memory[a] ELSE 0

\* m[lo:hi] of Python: negative indices count from the end, both ends are
\* cut to the sequence
SliceIndex(i) ==
    IF i < 0 THEN (IF i + MemSize < 0 THEN 0 ELSE i + MemSize)
    ELSE IF i > MemSize THEN MemSize ELSE i
MemSlice(lo, hi) ==
    [k \in 1..(IF SliceIndex(hi) > SliceIndex(lo)
                 THEN SliceIndex(hi) - SliceIndex(lo) ELSE 0)
        |-> MemAt(SliceIndex(lo) + k - 1)]

\* texts are sequences of one-character strings
HexDigits == <<"0", "1", "2", "3", "4", "5", "6", "7",
               "8", "9", "A", "B", "C", "D", "E", "F">>
\* chr(b) for 32 <= b < 127 is AsciiChars[b - 31]; the grave accent, which
\* a string of this language cannot hold, is written U+0060
AsciiChars == <<
    " ", "!", "\"", "#", "$", "%", "&", "'", "(", ")", "*", "+", ",", "-", ".", "/",
    "0", "1", "2", "3", "4", "5", "6", "7", "8", "9", ":", ";", "<", "=", ">", "?",
    "@", "A", "B", "C", "D", "E", "F", "G", "H", "I", "J", "K", "L", "M", "N", "O",
    "P", "Q", "R", "S", "T", "U", "V", "W", "X", "Y", "Z", "[", "\\", "]", "^", "_",
    "U+0060", "a", "b", "c", "d", "e", "f", "g", "h", "i", "j", "k", "l", "m", "n", "o",
    "p", "q", "r", "s", "t", "u", "v", "w", "x", "y", "z", "{", "|", "}", "~"
>>

RECURSIVE HexOf(_)
HexOf(n) == IF n < 16 THEN <<HexDigits[n + 1]>>
            ELSE Append(HexOf(n \div 16), HexDigits[(n % 16) + 1])

Repeat(ch, n) == [i \in 1..(IF n > 0 THEN n ELSE 0) |-> ch]

\* '{0:0wX}'.format(n): upper-case hex, zero-filled after the sign to w
FormatX(n, w) ==
    IF n < 0 THEN <<"-">> \o Repeat("0", w - 1 - Len(HexOf(-n))) \o HexOf(-n)
    ELSE Repeat("0", w - Len(HexOf(n))) \o HexOf(n)

\* '{0:w}'.format(s) for a string s: filled with spaces on the right
PadRight(s, w) == s \o Repeat(" ", w - Len(s))

\* sep.join(parts)
RECURSIVE JoinWith(_, _)
JoinWith(sep, parts) ==
    IF parts = << >> THEN << >>
    ELSE IF Len(parts) = 1 THEN parts[1]
    ELSE parts[1] \o sep \o JoinWith(sep, Tail(parts))

\* ' '.join('{0:02X}'.format(b) for b in group)
HexGroup(group) ==
    JoinWith(<<" ">>, [i \in 1..Len(group) |-> FormatX(group[i], 2)])

\* the groups contents[o:o+8] for o in range(0, len(contents), 8)
Groups(contents) ==
    [g \in 1..((Len(contents) + 7) \div 8) |->
        SubSeq(contents, 8 * (g - 1) + 1,
               IF 8 * g < Len(contents) THEN 8 * g ELSE Len(contents))]

\* the gloss with a blank in place of the dot
GlossBlank(b) == IF b >= 32 /\ b < 127 THEN AsciiChars[b - 31] ELSE " "

\* chr(b) if b >= 32 and b < 127 else '.'
Gloss(b) == IF b >= 32 /\ b < 127 THEN AsciiChars[b - 31] ELSE "."

\* render_line(offset, contents)
RenderLine(pg, offset, contents) ==
    LET hexrepr == JoinWith(<<" ", " ">>,
                       [g \in 1..Len(Groups(contents)) |->
                           HexGroup(Groups(contents)[g])])
        asciirepr == [i \in 1..Len(contents) |-> Gloss(contents[i])]
    IN  FormatX(pg * 256 + offset, 4) \o <<" ", " ">> \o PadRight(hexrepr, 48)
            \o <<" ", " ", "|">> \o PadRight(asciirepr, 16) \o <<"|">>

\* mem_contents(): the 16 lines of the page, line_offset 0x00, 0x10 .. 0xf0
MemContents(pg) ==
    [k \in 1..16 |->
        MemSlice(256 * pg + 16 * (k - 1), 256 * pg + 16 * (k - 1) + 16)]

\* the header line and the 16 rendered lines, joined with newlines
Dump(pg) ==
    Repeat(" ", 6)
        \o JoinWith(<<" ">>, [x \in 1..8 |-> FormatX(x - 1, 2)])
        \o <<" ", " ">>
        \o JoinWith(<<" ">>, [x \in 1..8 |-> FormatX(x + 7, 2)])
        \o <<"\n">>
        \o JoinWith(<<"\n">>,
               [k \in 1..16 |-> RenderLine(pg, 16 * (k - 1), MemContents(pg)[k])])

\* cgi.escape(s): &, < and > become character references
EscapeChar(ch) ==
    IF ch = "&" THEN "&amp;"
    ELSE IF ch = "<" THEN "&lt;"
    ELSE IF ch = ">" THEN "&gt;"
    ELSE ch

\* the string made of the characters (or strings) of s
RECURSIVE Str(_)
Str(s) ==
    IF s = << >> THEN ""
    ELSE IF Len(s) = 1 THEN s[1]
    ELSE Str(SubSeq(s, 1, Len(s) \div 2))
             \o Str(SubSeq(s, Len(s) \div 2 + 1, Len(s)))

CgiEscape(s) == Str([i \in 1..Len(s) |-> EscapeChar(s[i])])

\* _refresh_mem: the HTML on the text edit after the call with page pg
RefreshMem(pg) ==
    IF simulator = "None" THEN te
    ELSE "<pre><code>" \o CgiEscape(Dump(pg)) \o "</code></pre>"

\* what the _refresh_mem call with page pg read, when it rendered
RefreshShown(pg) ==
    IF simulator = "None" THEN shown ELSE << [pg |-> pg, mem |-> memory] >>

\* setPage(v): self._page = v; self._refresh_mem()
SetPage(v) ==
    /\ page' = v
    /\ te' = RefreshMem(v)
    /\ shown' = RefreshShown(v)
    /\ UNCHANGED <<simulator, spin, memory>>

\* the spin box, of range 0..0xff, changes to v and its valueChanged
\* signal calls _spinValueChanged(v), which calls setPage(v)
SpinMax == 255
SpinValues == {0, 2, SpinMax}
SpinValueChanged(v) ==
    /\ v \in 0..SpinMax
    /\ v # spin
    /\ spin' = v
    /\ page' = v
    /\ te' = RefreshMem(v)
    /\ shown' = RefreshShown(v)
    /\ UNCHANGED <<simulator, memory>>

\* the 66 ms refresh timer calls _refresh_mem
RefreshTimer ==
    /\ te' = RefreshMem(page)
    /\ shown' = RefreshShown(page)
    /\ UNCHANGED <<page, simulator, spin, memory>>

\* SimulatorUI.__init__: self._mv.simulator = self.sim
SetSimulator ==
    /\ simulator = "None"
    /\ simulator' = "sim"
    /\ UNCHANGED <<page, spin, memory, te, shown>>

\* the machine stores v at address a
MemWrite(a, v) ==
    /\ Cardinality(DOMAIN memory) < MaxMemWrites
    /\ a \notin DOMAIN memory
    /\ memory' = [x \in DOMAIN memory \cup {a} |->
                      IF x = a THEN v ELSE memory[x]]
    /\ UNCHANGED <<page, simulator, spin, te, shown>>

\* arguments of direct setPage calls
PageInputs == {-1, 0, 2, 255, 256}

MemInit ==
    /\ page = 0
    /\ simulator = "None"
    /\ spin = 0
    /\ memory = << >>
    /\ te = ""
    /\ shown = << >>

notMem == <<termVars, keyVars, lcdVars>>

MemNext ==
    \/ (\E v \in PageInputs : SetPage(v)) /\ UNCHANGED notMem
    \/ (\E v \in SpinValues : SpinValueChanged(v)) /\ UNCHANGED notMem
    \/ RefreshTimer /\ UNCHANGED notMem
    \/ SetSimulator /\ UNCHANGED notMem
    \/ (\E a \in MemAddrs, v \in MemVals : MemWrite(a, v)) /\ UNCHANGED notMem

\* ------------------------------------------------------------------------
TermInit ==
    /\ lock = "none"
    /\ mPc = "idle"
    /\ mByte = ByteBase
    /\ uPc = "idle"
    /\ bs = << >>
    /\ buf = << >>
    /\ ioIndex = 0
    /\ isOpen = TRUE
    /\ signalsEmitted = FALSE
    /\ emitQueued = 0
    /\ fed = << >>
    /\ lastFeed = << >>
    /\ svUpdate = FALSE
    /\ cachedSize = << >>
    /\ passed = << >>
    /\ sinceDrain = << >>
    /\ drainedOf = << >>

Init == TermInit /\ KeyInit /\ LcdInit /\ MemInit

notTerm == <<keyVars, lcdVars, memVars>>

TermNext ==
    \/ (\E b \in Bytes : ReceiveByteCall(b)) /\ UNCHANGED notTerm
    \/ ReceiveByteAcquire /\ UNCHANGED notTerm
    \/ ReceiveBytePutChar /\ UNCHANGED notTerm
    \/ ReceiveByteRelease /\ UNCHANGED notTerm
    \/ EmitSignals /\ UNCHANGED notTerm
    \/ HaveInputAcquire /\ UNCHANGED notTerm
    \/ HaveInputClose /\ UNCHANGED notTerm
    \/ HaveInputData /\ UNCHANGED notTerm
    \/ HaveInputSetData /\ UNCHANGED notTerm
    \/ HaveInputOpen /\ UNCHANGED notTerm
    \/ HaveInputRelease /\ UNCHANGED notTerm
    \/ HaveInputFeed /\ UNCHANGED notTerm
    \/ HaveInputContentsChanged /\ UNCHANGED notTerm
    \/ EmitSignalsDone /\ UNCHANGED notTerm
    \/ ScreenPaint /\ UNCHANGED notTerm

Spec == Init /\ [][TermNext]_vars

SpecKey == Init /\ [][KeyNext]_vars

SpecLcd == Init /\ [][LcdNext]_vars

SpecMem == Init /\ [][MemNext]_vars

\* _display_update is a slot of a widget: the Qt event loop of the UI thread
\* delivers every queued invocation
SpecLcdFair == SpecLcd /\ WF_vars(DisplayUpdate /\ UNCHANGED notLcd)

\* ========================================================================
\* Properties of the inbound queue (checked under Spec)
\* ========================================================================
IsPrefix(s, t) == Len(s) <= Len(t) /\ \A i \in 1..Len(s) : s[i] = t[i]

\* bytes the drain has taken out of the queue and not yet fed
HeldByDrain == IF uPc \in {"open", "exit", "feed"} THEN bs ELSE << >>
\* the byte of a receiveByte call that has not reached putChar yet
InCall == IF mPc \in {"wait", "put"} THEN <<mByte>> ELSE << >>

\* C1: the bytes fed to the terminal engine are at all times a prefix of the
\* bytes passed to receiveByte, in the same order, and every passed byte is
\* either fed, held by the running drain, in the queue or in the call that
\* is about to enqueue it: none is lost, duplicated or reordered.
C1_InboundFifo ==
    /\ IsPrefix(fed, passed)
    /\ passed = fed \o HeldByDrain \o buf \o InCall

\* an enqueue waited for the lock while a drain held it, and the bytes of
\* two different drains have been fed
C1_Witness ==
    /\ Len(fed) >= 2
    /\ lastFeed # << >>
    /\ lastFeed # fed
    /\ fed[1] # fed[2]
    /\ mPc = "wait"

\* C2: the lock is held by the UI thread only inside the swap-and-clear
\* steps of _have_input and by the machine thread only around putChar;
\* while stream.feed or contents_changed runs the UI thread does not hold
\* it, and a receiveByte call waiting then can take the lock.
C2_LockOnlyAroundQueue ==
    /\ lock \in {"none", "machine", "ui"}
    /\ (lock = "ui") <=> (uPc \in {"close", "data", "setData", "open", "exit"})
    /\ (lock = "machine") <=> (mPc \in {"put", "exit"})
    /\ uPc \in {"feed", "changed"} => lock # "ui"
    /\ (uPc \in {"feed", "changed"} /\ mPc = "wait") => ENABLED ReceiveByteAcquire

\* the machine thread holds the lock and enqueues while the UI thread is
\* feeding the engine
C2_Witness == uPc = "feed" /\ lock = "machine" /\ mPc = "put" /\ bs # << >>

\* C10: the batch one drain feeds is exactly the concatenation of the bytes
\* enqueued since the previous drain, however the receiveByte calls were
\* spread over time; between drains the queue holds exactly those bytes.
C10_DrainIsConcatenation ==
    /\ uPc \in {"setData", "open", "exit", "feed"} => bs = drainedOf
    /\ uPc \in {"changed", "emitted"} => lastFeed = drainedOf
    /\ uPc # "setData" => buf = sinceDrain

\* a second drain is about to feed a batch made of two enqueues
C10_Witness == uPc = "feed" /\ Len(bs) >= 2 /\ Len(fed) >= 1

\* ========================================================================
\* Properties of the outbound keystroke path (checked under SpecKey)
\* ========================================================================
\* the code points of the texts of the events evs, in event order
RECURSIVE CodePointsOf(_)
CodePointsOf(evs) ==
    IF evs = << >> THEN << >>
    ELSE LET last == evs[Len(evs)]
         IN  CodePointsOf(SubSeq(evs, 1, Len(evs) - 1))
                 \o [i \in 1..Len(last) |-> Ord(last[i])]

\* C9: the values emitted on transmitByte are the code points of the key
\* events' texts, concatenated in event order, one emission per code point;
\* an event with empty text adds nothing.
C9_TransmitInOrder == transmitted = CodePointsOf(keyEvents)

\* an empty-text event was followed by an event with a text of two
\* different characters
C9_Witness ==
    \E i, j \in 1..Len(keyEvents) :
        /\ i < j
        /\ keyEvents[i] = << >>
        /\ Len(keyEvents[j]) >= 2
        /\ keyEvents[j][1] # keyEvents[j][2]
        /\ Len(transmitted) >= 2

\* ========================================================================
\* Properties of the LCD view (checked under SpecLcd and SpecLcdFair)
\* ========================================================================
\* first DDRAM address of each character row, top to bottom
RowBase == <<0, 64, 20, 84>>

\* C3: the four character rows a paintEvent draws are, top to bottom,
\* B[0:20], B[64:84], B[20:40] and B[84:104] of the DDRAM B it read: cell i
\* of row r shows B[RowBase[r] + i] wherever B holds that address, and a
\* DDRAM of 104 bytes or more gives four rows of 20 cells.
C3_RowAddressing ==
    painted # << >> =>
        /\ Len(painted) = 4
        /\ \A r \in 1..4 : \A i \in 0..19 :
              IF RowBase[r] + i < Len(paintSrc)
                THEN /\ Len(painted[r]) > i
                     /\ painted[r][i + 1] = paintSrc[RowBase[r] + i + 1]
                ELSE Len(painted[r]) <= i
        /\ \A r \in 1..4 : Len(painted[r]) <= 20
        /\ Len(paintSrc) >= 104 => \A r \in 1..4 : Len(painted[r]) = 20

\* a paint of a full DDRAM in which address 64 differs from address 20: a
\* row-major reading would show another second row
C3_Witness ==
    /\ painted # << >>
    /\ Len(paintSrc) >= 104
    /\ paintSrc[65] = 65
    /\ paintSrc[21] # 65
    /\ painted[2][1] = 65

\* C4: a paintEvent that reads a DDRAM of fewer than 104 bytes draws
\* nothing: no shortened or empty row is ever drawn.
C4_ShortBufferRendersNothing ==
    (paintSrc # << >> /\ Len(paintSrc) < 104) => painted = << >>

\* C6: after a detach of an attached peripheral the setter has returned
\* without an exception, the old peripheral's signal is disconnected and
\* the surface is cleared: a redraw is pending or no cell is drawn.
C6_DetachClears ==
    detached =>
        /\ setterErr = "none"
        /\ display = "None"
        /\ connected = {}
        /\ (updateReq \/ painted = << >>)

\* C7: attaching a peripheral requests a redraw, and every change
\* notification the attached peripheral raises is followed by a call of
\* update() for as long as the peripheral stays attached.
C7_NotifiedThenRedraw ==
    /\ [][\A d \in Displays : DisplaySet(d) => updateReq']_vars
    /\ (owed ~> (~owed \/ display = "None"))

\* a mutation made after the last paint was notified, the notification was
\* delivered and the redraw it requested is pending
C7_Witness ==
    /\ display # "None"
    /\ painted # << >>
    /\ paintSrc # ddram[display]
    /\ notifyQueued = 0
    /\ ~owed
    /\ updateReq

\* the 5-bit value of one rendered pixel row
RowValue(px) ==
    LET bit(c) == IF px[c] = "on" THEN 2 ^ (4 - c) ELSE 0
    IN  bit(0) + bit(1) + bit(2) + bit(3) + bit(4)

\* C8 (FontTableTotal is the part about the table, C8_FontTotal adds the
\* cells drawn): the font table has 256 entries and the glyph rendered for every byte
\* value 0..255 has exactly 8 rows of 5 pixels, each row a value in 0..31:
\* the table entry's row where it defines one, the all-zero row where it
\* does not; every cell a paintEvent draws is drawn with such a glyph.
FontTableTotal ==
    /\ Len(CHAR_ROM) = 256
    /\ Len(font) = 256
    /\ \A v \in 0..255 :
          /\ Len(font[v + 1]) = 8
          /\ \A r \in 1..8 :
                /\ DOMAIN font[v + 1][r] = 0..4
                /\ \A c \in 0..4 : font[v + 1][r][c] \in {"on", "off"}
                /\ RowValue(font[v + 1][r]) \in 0..31
                /\ RowValue(font[v + 1][r]) =
                      IF r <= Len(CHAR_ROM[v + 1]) THEN CHAR_ROM[v + 1][r] ELSE 0

C8_FontTotal ==
    /\ FontTableTotal
    /\ \A r \in 1..Len(painted) : \A c \in 1..Len(painted[r]) :
          /\ painted[r][c] \in 0..255
          /\ Len(font[painted[r][c] + 1]) = 8

\* a paint drew the glyph of byte 255, whose table entry defines seven full
\* rows, next to the glyph of a space
C8_Witness ==
    /\ painted # << >>
    /\ painted[1][1] = 255
    /\ painted[3][2] = 32
    /\ RowValue(font[256][7]) = 31
    /\ RowValue(font[256][8]) = 0

\* ========================================================================
\* Properties of the memory view (checked under SpecMem)
\* ========================================================================
\* C5: the stored page index is always within 0..255: a setPage call with
\* an argument outside that range leaves the previous page in place.
C5_PageInRange == page \in 0..255

\* the byte at address a of the memory m that a refresh read
ByteIn(m, a) == IF a \in DOMAIN m THEN m[a] ELSE 0

\* two and four upper-case hex digits
Hex2(b) == HexDigits[(b \div 16) + 1] \o HexDigits[(b % 16) + 1]
Hex4(a) == Hex2(a \div 256) \o Hex2(a % 256)

\* the HTML that shows the gloss character of byte b
GlossHtml(b) ==
    IF b < 32 \/ b >= 127 THEN "."
    ELSE IF b = 38 THEN "&amp;"
    ELSE IF b = 60 THEN "&lt;"
    ELSE IF b = 62 THEN "&gt;"
    ELSE AsciiChars[b - 31]

\* line k (0..15) of page p over memory m: address, 8 + 8 hex pairs, gloss
ExpectedLine(p, k, m) ==
    LET a == 256 * p + 16 * k
        h(i) == Hex2(ByteIn(m, a + i))
        g(i) == GlossHtml(ByteIn(m, a + i))
    IN  Hex4(a) \o "  "
          \o h(0) \o " " \o h(1) \o " " \o h(2) \o " " \o h(3) \o " "
          \o h(4) \o " " \o h(5) \o " " \o h(6) \o " " \o h(7) \o "  "
          \o h(8) \o " " \o h(9) \o " " \o h(10) \o " " \o h(11) \o " "
          \o h(12) \o " " \o h(13) \o " " \o h(14) \o " " \o h(15)
          \o "  |"
          \o g(0) \o g(1) \o g(2) \o g(3) \o g(4) \o g(5) \o g(6) \o g(7)
          \o g(8) \o g(9) \o g(10) \o g(11) \o g(12) \o g(13) \o g(14)
          \o g(15) \o "|"

RECURSIVE ExpectedLines(_, _, _)
ExpectedLines(p, k, m) ==
    IF k = 15 THEN ExpectedLine(p, k, m)
    ELSE ExpectedLine(p, k, m) \o "\n" \o ExpectedLines(p, k + 1, m)

\* C11: a refresh on page p in 0..255 sets the text edit to the column
\* header and 16 lines of the window at p*256: line k is the 4-digit
\* upper-case hex address p*256 + 16*k, two blanks, the 16 bytes as two-digit
\* upper-case hex pairs in two groups of 8 with two blanks between the
\* groups, two blanks, and between bars the 16-character gloss, byte b as
\* its character when 32 <= b < 127 and as a dot otherwise.
C11_HexDump ==
    (shown # << >> /\ shown[1].pg \in 0..255) =>
        te = "<pre><code>"
               \o "      00 01 02 03 04 05 06 07  08 09 0A 0B 0C 0D 0E 0F\n"
               \o ExpectedLines(shown[1].pg, 0, shown[1].mem)
               \o "</code></pre>"

\* page 2 was rendered with byte 0x07 at address 519, which the first line
\* of the page shows as a dot
C11_Witness ==
    /\ shown # << >>
    /\ shown[1].pg = 2
    /\ 519 \in DOMAIN shown[1].mem
    /\ shown[1].mem[519] = 7
    /\ ExpectedLine(2, 0, shown[1].mem) =
          "0200  00 00 00 00 00 00 00 07  00 00 00 00 00 00 00 00  |................|"

\* ========================================================================
\* Progress of the inbound queue (checked under Spec)
\* ========================================================================
\* no receiveByte call is in progress and no drain is queued or running:
\* nothing more happens, however the UI thread is scheduled, until the
\* machine passes another byte
Quiescent == mPc = "idle" /\ uPc = "idle" /\ emitQueued = 0

\* C12: every byte passed to receiveByte is eventually taken out of the
\* queue by a drain and fed to the terminal engine; so whenever the view has
\* come to rest every passed byte has been fed and the queue is empty: no
\* byte is left waiting for a drain that will not come.
C12_QuiescentAllFed == Quiescent => (fed = passed /\ buf = << >>)

====
